---- MODULE Spec2Model ----
(***************************************************************************)
(* Model of the health chatbot backend: the GitHub dataset cache           *)
(* (get_data_from_github), the disease resolver (find_disease_info), the   *)
(* WHO outbreak client (get_who_outbreak_data) and the three HTTP handlers *)
(* (whatsapp_reply, webhook in app.py; whatsapp_webhook in twilio.py).     *)
(*                                                                         *)
(* A Python str is a sequence of one-character strings; the two emoji and  *)
(* the line feed of the outbreak line are the single elements "microbe",   *)
(* "link" and "LF".  None is the record NoneV; a raised exception that     *)
(* leaves a function is the record Raise(e).                               *)
(***************************************************************************)
EXTENDS Integers, Sequences, FiniteSets, TLC

\* ------------------------------------------------------------ bounds
\* longest disease name / filter the callers pass
MaxLen == 2
\* most records in a fetched dataset
MaxRecords == 2
\* most items in a feed response
MaxFeed == 6
\* most network fetches per dataset URL in one behaviour
MaxFetches == 2

\* ------------------------------------------------------------ strings
Alphabet == {"a", "A", "w"}

StringsUpTo(n) == UNION {[1..k -> Alphabet] : k \in 1..n}

\* a case-preserving str.lower(): what a case-sensitive comparison would use
lowerCharIdentity(c) == c

\* str.lower() on one character
lowerChar(c) ==
    CASE c = "A" -> "a"
      [] c = "B" -> "b"
      [] c = "N" -> "n"
      [] c = "U" -> "u"
      [] c = "W" -> "w"
      [] OTHER -> c

\* str.lower()
lower(s) == [i \in 1..Len(s) |-> lowerChar(s[i])]

\* Python's  sub in s  for strings
StrIn(sub, s) ==
    \E i \in 0..(Len(s) - Len(sub)) :
        \A j \in 1..Len(sub) : s[i + j] = sub[j]

\* ------------------------------------------------------------ values
NoneV == [t |-> "none", v |-> <<>>]
Raise(e) == [t |-> "raise", v |-> <<e>>]
ListV(l) == [t |-> "list", v |-> l]
DataV(d) == [t |-> "data", v |-> <<d>>]

SYMPTOMS_URL == "disease_symptoms.json"
PREVENTION_URL == "disease_preventions.json"
WHO_API_URL == "diseaseoutbreaknews"
URLS == {SYMPTOMS_URL, PREVENTION_URL}

\* the array a dataset document keeps its records under
ArrayKey(url) ==
    IF url = SYMPTOMS_URL THEN "diseases_with_symptoms"
    ELSE "diseases_with_prevention_measures"

\* An optional value: <<>> when the key is absent, <<x>> when present.
\* A record of a dataset: name and the category field, each optional.
Rec(n, f) == [name |-> n, field |-> f]

\* A parsed JSON document: an object holding one named array, or an array.
Doc(shape, key, items) == [shape |-> shape, key |-> key, items |-> items]

\* Python truthiness of a parsed document
Truthy(data) ==
    IF data.shape = "object" THEN data.key /= "" ELSE Len(data.items) > 0

\* ------------------------------------------------------------ find_disease_info
\* the dataset URL an info_type reads, "" for an unknown info_type
InfoUrl(info_type) ==
    CASE info_type = "symptoms" -> SYMPTOMS_URL
      [] info_type = "prevention" -> PREVENTION_URL
      [] OTHER -> ""

\* data.get(key, []) on an object
ItemsOf(data, key) == IF data.key = key THEN data.items ELSE <<>>

\* item.get(field, [])
FieldOf(item) == IF item.field = <<>> THEN <<>> ELSE item.field[1]

\* the for loop over the records, from index i on: item["name"] raises
\* KeyError on a record without a name
RECURSIVE ScanFrom(_, _, _)
ScanFrom(items, i, disease_name) ==
    IF i > Len(items) THEN NoneV
    ELSE IF items[i].name = <<>> THEN Raise("KeyError")
    ELSE IF lower(items[i].name[1]) = lower(disease_name)
         THEN ListV(FieldOf(items[i]))
    ELSE ScanFrom(items, i + 1, disease_name)

\* find_disease_info once get_data_from_github returned got (NoneV or
\* DataV(document)) for the dataset URL of info_type
find_disease_info(got, disease_name, info_type) ==
    IF InfoUrl(info_type) = "" \/ got.t /= "data" THEN NoneV
    ELSE LET data == got.v[1] IN
         IF ~Truthy(data) THEN NoneV
         ELSE IF data.shape /= "object" THEN Raise("AttributeError")
         ELSE ScanFrom(ItemsOf(data, ArrayKey(InfoUrl(info_type))), 1, disease_name)

\* ------------------------------------------------------------ get_who_outbreak_data
PageSize == 5

Chars_None == <<"N", "o", "n", "e">>
Chars_UnknownDate == <<"U", "n", "k", "n", "o", "w", "n", " ", "d", "a", "t", "e">>
Chars_WhoBase ==
    <<"h", "t", "t", "p", "s", ":", "/", "/", "w", "w", "w", ".", "w", "h", "o", ".", "i", "n", "t">>

\* an optional string is truthy when present and not empty
TruthyStr(o) == o /= <<>> /\ Len(o[1]) > 0

\* item.get("OverrideTitle") or item.get("Title"), as the f-string prints it
TitleOf(item) ==
    IF TruthyStr(item.OverrideTitle) THEN item.OverrideTitle[1]
    ELSE IF item.Title = <<>> THEN Chars_None
    ELSE item.Title[1]

\* the display line of one feed item
OutbreakLine(item) ==
    <<"microbe", " ">> \o TitleOf(item) \o <<" ", "(">>
    \o (IF item.FormattedDate = <<>> THEN Chars_UnknownDate ELSE item.FormattedDate[1])
    \o <<")", "LF", "link", " ">> \o Chars_WhoBase
    \o (IF item.ItemDefaultUrl = <<>> THEN <<>> ELSE item.ItemDefaultUrl[1])

\* data["value"][:5]
FirstPage(value) == SubSeq(value, 1, IF Len(value) < PageSize THEN Len(value) ELSE PageSize)

\* the lines of the first page, in feed order
Outbreaks(value) == [i \in 1..Len(FirstPage(value)) |-> OutbreakLine(value[i])]

\* the list comprehension: the lines that contain the lower-cased filter
RECURSIVE FilterLines(_, _)
FilterLines(lines, d) ==
    IF lines = <<>> THEN <<>>
    ELSE (IF StrIn(lower(d), lower(Head(lines))) THEN <<Head(lines)>> ELSE <<>>)
         \o FilterLines(Tail(lines), d)

\* get_who_outbreak_data(disease) when the feed answers feed; every
\* exception inside the try block ends in  return None
get_who_outbreak_data(feed, disease) ==
    IF feed.status /= "ok" THEN NoneV
    ELSE IF ~feed.hasValue \/ Len(feed.value) = 0 THEN NoneV
    ELSE IF TruthyStr(disease)
         THEN LET filtered == FilterLines(Outbreaks(feed.value), disease[1]) IN
              IF Len(filtered) > 0 THEN ListV(filtered) ELSE NoneV
    ELSE ListV(Outbreaks(feed.value))

\* ------------------------------------------------------------ requests
\* One call of an operation with its arguments and with what the outside
\* world answers to the outbound calls it makes besides the dataset fetch:
\*   disease   optional str: disease_name, the outbreak filter, or the first
\*             element of the "disease-name" parameter
\*   feed      the WHO feed's response
\*   body      the inbound request body: "empty", "text", "unparsable", "json"
\*   nlu       Dialogflow's detect_intent: "ok" or "error"
\*   upstream  the answer to twilio.py's POST to the webhook
NoFeed == [status |-> "none", hasValue |-> FALSE, value |-> <<>>]

BaseReq ==
    [op |-> "", url |-> "", disease |-> <<>>, info_type |-> "", feed |-> NoFeed,
     body |-> "", nlu |-> "", intent |-> "", upstream |-> ""]

Reply(kind) == [t |-> "reply", v |-> <<kind>>]

OutbreakIntents == {"disease_outbreaks.general", "disease_outbreaks.specific"}

\* the info_type a handler passes to find_disease_info, "" when it calls
\* something else
HandlerInfoType(req) ==
    IF ~TruthyStr(req.disease) THEN ""
    ELSE CASE req.intent = "ask_symptoms" -> "symptoms"
           [] req.intent = "ask_preventions" -> "prevention"
           [] OTHER -> ""

\* whether the handler gets as far as dispatching on the intent
Dispatches(req) ==
    CASE req.op = "whatsapp_reply" -> req.body = "text" /\ req.nlu = "ok"
      [] req.op = "webhook" -> req.body = "json"
      [] OTHER -> FALSE

\* the dataset URL the call passes to get_data_from_github, "" when none
DatasetUrl(req) ==
    CASE req.op = "get_data_from_github" -> req.url
      [] req.op = "find_disease_info" -> InfoUrl(req.info_type)
      [] Dispatches(req) -> InfoUrl(HandlerInfoType(req))
      [] OTHER -> ""

\* whether the call requests the WHO feed
FeedCalled(req) ==
    \/ req.op = "get_who_outbreak_data"
    \/ Dispatches(req) /\ HandlerInfoType(req) = "" /\ req.intent \in OutbreakIntents

\* the intent dispatch shared by whatsapp_reply and webhook; a raise of
\* find_disease_info comes out as it is
Dispatch(req, got) ==
    IF HandlerInfoType(req) /= ""
    THEN LET r == find_disease_info(got, req.disease[1], HandlerInfoType(req)) IN
         IF r.t = "raise" THEN r
         ELSE IF r.t = "list" /\ Len(r.v) > 0 THEN Reply("info")
         ELSE Reply("no_info")
    ELSE IF req.intent \in OutbreakIntents
    THEN IF get_who_outbreak_data(req.feed, req.disease).t = "list"
         THEN Reply("outbreaks") ELSE Reply("no_outbreaks")
    ELSE Reply("fallback")

\* app.py /twilio: everything runs inside try/except Exception
whatsapp_reply(req, got) ==
    IF req.body = "empty" THEN Reply("please_type")
    ELSE IF req.nlu /= "ok" THEN Reply("unable_to_process")
    ELSE LET r == Dispatch(req, got) IN
         IF r.t = "raise" THEN Reply("server_error") ELSE r

\* app.py /webhook: no try/except; get_json(silent=True) gives None for a
\* body that does not parse and req.get then raises
webhook(req, got) ==
    IF req.body /= "json" THEN Raise("AttributeError")
    ELSE Dispatch(req, got)

\* twilio.py /whatsapp: requests.post and response.json() are unguarded
whatsapp_webhook(req) ==
    CASE req.upstream = "conn_error" -> Raise("ConnectionError")
      [] req.upstream = "non_json" -> Raise("JSONDecodeError")
      [] req.upstream = "json_reply" -> Reply("relayed")
      [] OTHER -> Reply("default_sorry")

\* what the call returns once get_data_from_github (if called) returned got
Finish(req, got) ==
    CASE req.op = "get_data_from_github" -> got
      [] req.op = "find_disease_info" ->
            find_disease_info(got, req.disease[1], req.info_type)
      [] req.op = "get_who_outbreak_data" ->
            get_who_outbreak_data(req.feed, req.disease)
      [] req.op = "whatsapp_reply" -> whatsapp_reply(req, got)
      [] req.op = "webhook" -> webhook(req, got)
      [] OTHER -> whatsapp_webhook(req)

\* documents the dataset URL may serve while the cache is exercised: one
\* record, no record, a record without a name
Docs(url) ==
    {Doc("object", ArrayKey(url), <<Rec(<<<<"A">>>>, <<<<"fever">>>>)>>),
     Doc("object", ArrayKey(url), <<>>),
     Doc("object", ArrayKey(url), <<Rec(<<>>, <<<<"cough">>>>)>>)}

\* ------------------------------------------------------------ state
Workers == {"w1", "w2"}

VARIABLES
    data_cache,   \* app.py's dict: a function from the cached URLs to documents
    pc,           \* per worker: "idle", "fetching" (requests.get in flight), "done"
    call,         \* per worker: the request it runs
    ret,          \* per worker: the value the call returned
    requested,    \* per worker: the dataset / feed URLs the call has requested
    status,       \* per worker: how the dataset fetch of the call ended
    before,       \* per worker: data_cache when the call started
    fetches,      \* per dataset URL: requests.get calls issued
    okFetches     \* per dataset URL: requests.get calls that ended in a store

vars == <<data_cache, pc, call, ret, requested, status, before, fetches, okFetches>>

EmptyCache == [u \in {} |-> 0]

\* data_cache[url] = data
CacheStoreNothing(cache, url, data) == cache

CacheStore(cache, url, data) ==
    [x \in DOMAIN cache \cup {url} |-> IF x = url THEN data ELSE cache[x]]

\* the except branch of get_data_from_github, remembering the failure
CacheAfterFailureNegative(cache, url) == CacheStore(cache, url, Doc("object", "", <<>>))

\* the except branch of get_data_from_github: the dict is left alone
CacheAfterFailure(cache, url) == cache

\* get_who_outbreak_data memoising the feed's answer
CacheAfterFeedMemo(cache, req) ==
    IF FeedCalled(req) THEN CacheStore(cache, WHO_API_URL, Doc("array", "", req.feed.value))
    ELSE cache

\* get_who_outbreak_data and the handlers' own code never write data_cache
CacheAfterFeed(cache, req) == cache

Init ==
    /\ data_cache = EmptyCache
    /\ pc = [w \in Workers |-> "idle"]
    /\ call = [w \in Workers |-> BaseReq]
    /\ ret = [w \in Workers |-> NoneV]
    /\ requested = [w \in Workers |-> <<>>]
    /\ status = [w \in Workers |-> ""]
    /\ before = [w \in Workers |-> EmptyCache]
    /\ fetches = [u \in URLS |-> 0]
    /\ okFetches = [u \in URLS |-> 0]

\* the call of req by worker w, up to the dataset fetch or, when it needs
\* none, to its end:  if url in data_cache: return data_cache[url]
Enter(w, req) ==
    /\ call' = [call EXCEPT ![w] = req]
    /\ before' = [before EXCEPT ![w] = data_cache]
    /\ status' = [status EXCEPT ![w] = ""]
    /\ okFetches' = okFetches
    /\ LET u == DatasetUrl(req) IN
       IF u /= "" /\ u \notin DOMAIN data_cache
       THEN /\ fetches[u] < MaxFetches
            /\ fetches' = [fetches EXCEPT ![u] = @ + 1]
            /\ pc' = [pc EXCEPT ![w] = "fetching"]
            /\ requested' = [requested EXCEPT ![w] = <<u>>]
            /\ UNCHANGED <<data_cache, ret>>
       ELSE /\ pc' = [pc EXCEPT ![w] = "done"]
            /\ ret' = [ret EXCEPT ![w] =
                         Finish(req, IF u /= "" THEN DataV(data_cache[u]) ELSE NoneV)]
            /\ requested' = [requested EXCEPT ![w] =
                         IF FeedCalled(req) THEN <<WHO_API_URL>> ELSE <<>>]
            /\ data_cache' = CacheAfterFeed(data_cache, req)
            /\ fetches' = fetches

\* A worker takes one of the requests reqs and enters its call.
Start(w, reqs) ==
    /\ pc[w] = "idle"
    /\ \E req \in reqs : Enter(w, req)

\* requests.get, raise_for_status and response.json() succeed with doc
FetchOk(w) ==
    /\ pc[w] = "fetching"
    /\ \E doc \in Docs(DatasetUrl(call[w])) :
          /\ data_cache' = CacheStore(data_cache, DatasetUrl(call[w]), doc)
          /\ ret' = [ret EXCEPT ![w] = Finish(call[w], DataV(doc))]
    /\ okFetches' = [okFetches EXCEPT ![DatasetUrl(call[w])] = @ + 1]
    /\ status' = [status EXCEPT ![w] = "ok"]
    /\ pc' = [pc EXCEPT ![w] = "done"]
    /\ UNCHANGED <<call, requested, before, fetches>>

FetchFailures == {"network_error", "http_error", "malformed_body"}

\* one of the three raises; the except branch prints and returns None
FetchFail(w) ==
    /\ pc[w] = "fetching"
    /\ data_cache' = CacheAfterFailure(data_cache, DatasetUrl(call[w]))
    /\ \E how \in FetchFailures : status' = [status EXCEPT ![w] = how]
    /\ ret' = [ret EXCEPT ![w] = Finish(call[w], NoneV)]
    /\ pc' = [pc EXCEPT ![w] = "done"]
    /\ UNCHANGED <<call, requested, before, fetches, okFetches>>

\* the caller takes the value; the worker is free for the next call
Return(w) ==
    /\ pc[w] = "done"
    /\ pc' = [pc EXCEPT ![w] = "idle"]
    /\ call' = [call EXCEPT ![w] = BaseReq]
    /\ ret' = [ret EXCEPT ![w] = NoneV]
    /\ requested' = [requested EXCEPT ![w] = <<>>]
    /\ status' = [status EXCEPT ![w] = ""]
    /\ before' = [before EXCEPT ![w] = EmptyCache]
    /\ UNCHANGED <<data_cache, fetches, okFetches>>

\* ------------------------------------------------------------ inputs
SeqsUpTo(S, n) == UNION {[1..k -> S] : k \in 0..n}

Item(ot, t, date, link) ==
    [OverrideTitle |-> ot, Title |-> t, FormattedDate |-> date, ItemDefaultUrl |-> link]

FeedItems ==
    {Item(<<>>, <<<<"A">>>>, <<<<"1">>>>, <<<<"/", "x">>>>),
     Item(<<<<"w">>>>, <<<<"a">>>>, <<>>, <<>>),
     Item(<<<<>>>>, <<>>, <<<<"2">>>>, <<<<"/", "y">>>>)}

FeedOk(value) == [status |-> "ok", hasValue |-> TRUE, value |-> value]
FeedDown(how) == [status |-> how, hasValue |-> FALSE, value |-> <<>>]

Feeds ==
    {FeedDown(how) : how \in FetchFailures}
    \cup {[status |-> "ok", hasValue |-> FALSE, value |-> <<>>]}
    \cup {FeedOk(v) : v \in SeqsUpTo(FeedItems, MaxFeed)}

SmallFeeds ==
    {FeedDown("http_error"), FeedOk(<<Item(<<>>, <<<<"A">>>>, <<<<"1">>>>, <<>>)>>)}

Filters(n) == {<<>>} \cup {<<d>> : d \in StringsUpTo(n)}

GetData(url) == [BaseReq EXCEPT !.op = "get_data_from_github", !.url = url]
Find(d, ty) ==
    [BaseReq EXCEPT !.op = "find_disease_info", !.disease = <<d>>, !.info_type = ty]
Who(f, feed) ==
    [BaseReq EXCEPT !.op = "get_who_outbreak_data", !.disease = f, !.feed = feed]

ApiRequests ==
    {GetData(u) : u \in URLS}
    \cup {Find(<<"a">>, ty) : ty \in {"symptoms", "prevention"}}
    \cup {Who(f, feed) : f \in Filters(1), feed \in SmallFeeds}

\* ------------------------------------------------------------ specifications
\* Request workers sharing data_cache, interleaved at the dataset fetch.
Next ==
    \E w \in Workers :
        \/ Start(w, ApiRequests)
        \/ FetchOk(w)
        \/ FetchFail(w)
        \/ Return(w)

Spec == Init /\ [][Next]_vars

\* One request at a time: a sequence of calls.
SeqNext ==
    \/ Start("w1", ApiRequests)
    \/ FetchOk("w1")
    \/ FetchFail("w1")
    \/ Return("w1")

SeqSpec == Init /\ [][SeqNext]_vars

\* ------------------------------------------------------------ the resolver on a warm cache
RecordNames == {<<"A">>, <<"a">>, <<"A", "w">>}

Records ==
    {Rec(n, f) : n \in {<<>>} \cup {<<x>> : x \in RecordNames},
                 f \in {<<>>, <<<<"fever">>>>, <<<<"cough">>>>}}

\* what the two dataset URLs may have served: the same records under each
\* URL's array, or a document of another form
WarmCaches ==
    {[u \in URLS |-> Doc("object", ArrayKey(u), items)] :
        items \in SeqsUpTo(Records, MaxRecords)}
    \cup {[u \in URLS |-> d] :
        d \in {Doc("array", "", <<Rec(<<<<"a">>>>, <<>>)>>), Doc("object", "", <<>>),
               Doc("object", "other", <<Rec(<<<<"a">>>>, <<>>)>>)}}

ResolveInit ==
    /\ data_cache \in WarmCaches
    /\ pc = [w \in Workers |-> "idle"]
    /\ call = [w \in Workers |-> BaseReq]
    /\ ret = [w \in Workers |-> NoneV]
    /\ requested = [w \in Workers |-> <<>>]
    /\ status = [w \in Workers |-> ""]
    /\ before = [w \in Workers |-> EmptyCache]
    /\ fetches = [u \in URLS |-> 1]
    /\ okFetches = [u \in URLS |-> 1]

ResolveRequests ==
    {Find(d, ty) : d \in StringsUpTo(MaxLen), ty \in {"symptoms", "prevention", "other"}}

ResolveNext ==
    \/ Start("w1", ResolveRequests)
    \/ Return("w1")

ResolveSpec == ResolveInit /\ [][ResolveNext]_vars

\* ------------------------------------------------------------ the outbreak client
OutbreakRequests == {Who(f, feed) : f \in Filters(MaxLen), feed \in Feeds}

OutbreakNext ==
    \/ Start("w1", OutbreakRequests)
    \/ Return("w1")

OutbreakSpec == Init /\ [][OutbreakNext]_vars

\* ------------------------------------------------------------ the handlers
Intents == {"ask_symptoms", "ask_preventions", "other"} \cup OutbreakIntents

HandlerRequests ==
    {[BaseReq EXCEPT !.op = "whatsapp_reply", !.body = b, !.nlu = n, !.intent = i,
                     !.disease = d, !.feed = f] :
        b \in {"empty", "text"}, n \in {"ok", "error"}, i \in Intents,
        d \in Filters(1), f \in SmallFeeds}
    \cup {[BaseReq EXCEPT !.op = "webhook", !.body = b, !.intent = i,
                          !.disease = d, !.feed = f] :
        b \in {"unparsable", "json"}, i \in Intents, d \in Filters(1), f \in SmallFeeds}
    \cup {[BaseReq EXCEPT !.op = "whatsapp_webhook", !.body = b, !.upstream = up] :
        b \in {"empty", "text"},
        up \in {"conn_error", "non_json", "json_reply", "json_no_reply"}}

HandlerNext ==
    \/ Start("w1", HandlerRequests)
    \/ FetchOk("w1")
    \/ FetchFail("w1")
    \/ Return("w1")

HandlerSpec == Init /\ [][HandlerNext]_vars

\* ------------------------------------------------------------ properties
\* Case-insensitive comparison, stated letter by letter and not through lower.
CasePairs == {{"a", "A"}, {"b", "B"}, {"n", "N"}, {"u", "U"}, {"w", "W"}}
SameLetter(c, d) == c = d \/ {c, d} \in CasePairs
CaseEq(x, y) == Len(x) = Len(y) /\ \A i \in 1..Len(x) : SameLetter(x[i], y[i])
CaseIn(sub, x) ==
    \E i \in 0..(Len(x) - Len(sub)) : \A j \in 1..Len(sub) : SameLetter(x[i + j], sub[j])

Done(w, ops) == pc[w] = "done" /\ call[w].op \in ops
DataOps == {"get_data_from_github", "find_disease_info"}

\* C1: a call that finds no entry for its URL issues exactly one request for
\* that URL; a fetch that succeeded has left an entry; a call that finds an
\* entry issues no request and get_data_from_github returns the entry.
C1_FirstCallFetchesOnceLaterCallsNone ==
    /\ \A u \in URLS : okFetches[u] > 0 => u \in DOMAIN data_cache
    /\ \A w \in Workers :
         Done(w, DataOps) /\ DatasetUrl(call[w]) /= "" =>
            LET u == DatasetUrl(call[w]) IN
            IF u \in DOMAIN before[w]
            THEN /\ requested[w] = <<>>
                 /\ call[w].op = "get_data_from_github" => ret[w] = DataV(before[w][u])
            ELSE requested[w] = <<u>>

\* C1 witness: the second call for a URL, after the first one fetched and
\* stored, has returned the stored document without a request.
C1_Witness ==
    \E w \in Workers :
        /\ Done(w, {"get_data_from_github"})
        /\ call[w].url \in DOMAIN before[w]
        /\ fetches[call[w].url] = 1 /\ okFetches[call[w].url] = 1
        /\ requested[w] = <<>>
        /\ ret[w] = DataV(data_cache[call[w].url])

\* C2 as stated: at most one fetch is issued per dataset URL, failed fetches
\* included.
C2_AtMostOneFetchPerUrl == \A u \in URLS : fetches[u] <= 1

\* C2 amended: in a sequence of calls at most one fetch per dataset URL
\* succeeds (a fetch that failed may be followed by another fetch).
C2_AtMostOneSuccessfulFetchPerUrl == \A u \in URLS : okFetches[u] <= 1

\* C2 witness: a URL fetched twice, the first fetch failed, the second stored.
C2_Witness ==
    \E u \in URLS : fetches[u] = 2 /\ okFetches[u] = 1 /\ u \in DOMAIN data_cache

\* C3: a call whose fetch failed returns None (find_disease_info: no raise)
\* and data_cache is what it was when the call started, so the URL is still
\* uncached; a call whose fetch succeeded has stored the document and
\* get_data_from_github returns it.
C3_FailedFetchLeavesCacheRetryStores ==
    \A w \in Workers :
        Done(w, DataOps) /\ requested[w] /= <<>> =>
            LET u == DatasetUrl(call[w]) IN
            IF status[w] \in FetchFailures
            THEN /\ ret[w] = NoneV
                 /\ data_cache = before[w]
                 /\ u \notin DOMAIN data_cache
            ELSE /\ status[w] = "ok"
                 /\ u \in DOMAIN data_cache
                 /\ call[w].op = "get_data_from_github" => ret[w] = DataV(data_cache[u])

\* C3 witness: get_data_from_github has returned the document of a fetch that
\* followed a failed fetch of the same URL.
C3_Witness ==
    \E w \in Workers :
        /\ Done(w, {"get_data_from_github"})
        /\ status[w] = "ok"
        /\ fetches[call[w].url] = 2 /\ okFetches[call[w].url] = 1
        /\ ret[w] = DataV(data_cache[call[w].url])

\* the records of a dataset document that a disease name selects
MatchIdx(items, d) ==
    {i \in 1..Len(items) : items[i].name /= <<>> /\ CaseEq(items[i].name[1], d)}

Min(S) == CHOOSE m \in S : \A n \in S : m <= n

\* a document of the form the data model describes: an object with the
\* category's array, every record with a name
WellFormed(doc, url) ==
    /\ doc.shape = "object" /\ doc.key = ArrayKey(url)
    /\ \A i \in 1..Len(doc.items) : doc.items[i].name /= <<>>

\* C4: on a dataset whose records all have a name, find_disease_info returns
\* the field list of the first record whose whole name equals the disease
\* name up to letter case, and no list when no record's name does.
C4_FirstCaseInsensitiveMatch ==
    \A w \in Workers :
        (/\ Done(w, {"find_disease_info"})
         /\ DatasetUrl(call[w]) \in DOMAIN data_cache
         /\ WellFormed(data_cache[DatasetUrl(call[w])], DatasetUrl(call[w]))) =>
            LET items == data_cache[DatasetUrl(call[w])].items
                hits == MatchIdx(items, call[w].disease[1])
            IN IF hits = {} THEN ret[w].t /= "list"
               ELSE /\ ret[w].t = "list"
                    /\ ret[w].v = FieldOf(items[Min(hits)])

\* C4 witness: two records whose names equal the disease name up to letter
\* case, the first in another case than asked for, with different field
\* lists; the first record's list is returned.
C4_Witness ==
    \E w \in Workers :
        /\ Done(w, {"find_disease_info"})
        /\ call[w].info_type = "symptoms"
        /\ call[w].disease = <<<<"a">>>>
        /\ data_cache[SYMPTOMS_URL].shape = "object"
        /\ data_cache[SYMPTOMS_URL].items =
              <<Rec(<<<<"A">>>>, <<<<"fever">>>>), Rec(<<<<"a">>>>, <<<<"cough">>>>)>>
        /\ ret[w] = ListV(<<"fever">>)

\* C5: find_disease_info never raises, returns None when the fetch failed
\* and returns None when no record of the fetched document has the name.
C5_AbsentOrFailedGivesNoneNeverRaises ==
    \A w \in Workers :
        Done(w, {"find_disease_info"}) =>
            LET u == DatasetUrl(call[w]) IN
            /\ ret[w].t /= "raise"
            /\ status[w] \in FetchFailures => ret[w] = NoneV
            /\ (/\ u \in DOMAIN data_cache
                /\ MatchIdx(data_cache[u].items, call[w].disease[1]) = {}) => ret[w] = NoneV

\* the lines of the first page whose item's title contains d up to letter case
RECURSIVE LinesByTitle(_, _)
LinesByTitle(items, d) ==
    IF items = <<>> THEN <<>>
    ELSE (IF CaseIn(d, TitleOf(Head(items))) THEN <<OutbreakLine(Head(items))>> ELSE <<>>)
         \o LinesByTitle(Tail(items), d)

\* the list a result stands for: None stands for no item
AsList(r) == IF r.t = "list" THEN r.v ELSE <<>>

\* C6: with a filter d and a feed that answered, the result is exactly the
\* lines, in feed order, of the items whose title contains d up to letter case.
C6_FilterKeepsExactlyTitleMatches ==
    \A w \in Workers :
        (/\ Done(w, {"get_who_outbreak_data"})
         /\ TruthyStr(call[w].disease)
         /\ call[w].feed.status = "ok") =>
            AsList(ret[w]) = LinesByTitle(FirstPage(call[w].feed.value), call[w].disease[1])

Handlers == {"whatsapp_reply", "webhook", "whatsapp_webhook"}

\* C7: every handler call ends with a reply, whatever the outbound calls did.
C7_HandlersAlwaysReply ==
    \A w \in Workers : Done(w, Handlers) => ret[w].t = "reply"

\* C8: a call that asks for outbreak data requests the feed, whatever
\* data_cache holds, and data_cache is what it was when the call started;
\* the feed's URL is never a key of data_cache.
C8_OutbreaksFreshAndUncached ==
    /\ DOMAIN data_cache \subseteq URLS
    /\ \A w \in Workers :
         Done(w, {"get_who_outbreak_data"}) =>
            requested[w] = <<WHO_API_URL>> /\ data_cache = before[w]

\* C8 witness: an outbreak call returned a list while both datasets were
\* cached.
C8_Witness ==
    \E w \in Workers :
        /\ Done(w, {"get_who_outbreak_data"})
        /\ DOMAIN data_cache = URLS
        /\ ret[w].t = "list"
        /\ requested[w] = <<WHO_API_URL>>

\* C9: with a filter, a feed that answered with items of which none is kept
\* gives another value than a feed whose fetch failed.
C9_NoMatchDiffersFromFailure ==
    \A w \in Workers :
        (/\ Done(w, {"get_who_outbreak_data"})
         /\ TruthyStr(call[w].disease)
         /\ call[w].feed.status = "ok" /\ Len(call[w].feed.value) > 0
         /\ FilterLines(Outbreaks(call[w].feed.value), call[w].disease[1]) = <<>>) =>
            ret[w] /= get_who_outbreak_data(FeedDown("network_error"), call[w].disease)

\* C10: an entry of data_cache is never removed and never replaced by
\* another document.
C10_EntriesNeverReplaced ==
    [][\A u \in DOMAIN data_cache :
          u \in DOMAIN data_cache' /\ data_cache'[u] = data_cache[u]]_vars

====
